---- MODULE Spec2Model ----
(***************************************************************************)
(* A model of georgijd/storage: the OAuth2 client record of                *)
(* src/model/client.go (package client, lines 135-428) with its scope and  *)
(* tenant set operations, Equal and IsEmpty, and the refresh-token session *)
(* storage of src/request/request_oauth2_refresh_token_storage.go.         *)
(*                                                                         *)
(* Go slices are modelled as what they are: a reference to a backing array *)
(* plus a length.  `heap` holds the backing arrays; the capacity of a      *)
(* slice is the length of its array (every slice of the program starts at  *)
(* offset 0 of its array).                                                 *)
(***************************************************************************)
EXTENDS Integers, Sequences, FiniteSets, TLC

VARIABLES
    c,        \* the client the methods are called on
    d,        \* a second Client value (d := c, or the argument of Equal)
    hasCopy,  \* whether d has been assigned
    heap,     \* backing arrays of the []string fields Scopes, AllowedTenantAccess
    db,       \* the mongo collections: collection name -> set of documents
    now,      \* the time the storage reads when it looks a record up
    calls,    \* per request handler, the storage call it has in flight
    live,     \* history: per refresh-token signature, the request of the
              \* successful create that no delete or revoke has touched since
    last      \* history: the last call, its arguments, the state before, its result

vars == <<c, d, hasCopy, heap, db, now, calls, live, last>>

----------------------------------------------------------------------------
(* Bounds *)

\* The longest variadic argument list of the Enable*/Disable* calls.
MaxArgs == 2

\* The latest expiry time a request carries; the clock runs one step past it.
MaxTime == 2

\* Scope names and tenant ids the calls are made with.
ScopeNames == {"a", "b", "c"}
TenantIDs == {"t1", "t2"}

\* The tenant ids used where copies of the client are taken.
CopyTenantIDs == {"t1"}

SeqsUpTo(S, n) == UNION {[1..k -> S] : k \in 0..n}

ScopeArgs == SeqsUpTo(ScopeNames, MaxArgs)
TenantArgs == SeqsUpTo(TenantIDs, MaxArgs)

\* Calls with a single argument.
OneArg(S) == {<<x>> : x \in S}

----------------------------------------------------------------------------
(* Go slices of strings *)

\* The arrays that can be live at once: a Client and a copy of it hold two
\* Scopes arrays and two AllowedTenantAccess arrays at most.
ScopesArrays == {1, 2}
TenantArrays == {3, 4}
ArrayIds == ScopesArrays \cup TenantArrays

\* The nil slice: no backing array, length and capacity 0.
NilSlice == [arr |-> 0, len |-> 0]

\* cap(s)
Cap(s, h) == IF s.arr = 0 THEN 0 ELSE Len(h[s.arr])

\* The elements s[0], ..., s[len(s)-1], as a sequence.
SliceVal(s, h) == IF s.arr = 0 THEN <<>> ELSE SubSeq(h[s.arr], 1, s.len)

Range(q) == {q[k] : k \in 1..Len(q)}

NoDup(q) == \A i, j \in 1..Len(q) : q[i] = q[j] => i = j

Zeros(n) == [k \in 1..n |-> ""]

\* The capacity of the array that append allocates when the old one is full
\* (runtime growslice: doubling below 256 elements, and 16-byte strings make
\* 1, 2, 4, 8 exact malloc size classes).
GrowCap(cap) == IF cap = 0 THEN 1 ELSE 2 * cap

\* The array a fresh allocation gets: one of `ids` that no other live slice
\* refers to.
FreshArray(ids, pinned) ==
    CHOOSE a \in ids \ pinned : \A b \in ids \ pinned : a <= b

\* append(s, v): in place when there is room, else into a new array holding a
\* copy.  `pinned` are the arrays other live slices refer to; an array that
\* nothing refers to any more is collected (emptied).
GoAppend(s, h, v, ids, pinned) ==
    IF s.len < Cap(s, h)
    THEN [s |-> [s EXCEPT !.len = s.len + 1],
          h |-> [h EXCEPT ![s.arr][s.len + 1] = v]]
    ELSE LET a == FreshArray(ids, pinned)
             grown == SliceVal(s, h) \o <<v>> \o Zeros(GrowCap(Cap(s, h)) - s.len - 1)
             freed == IF s.arr # 0 /\ s.arr \notin pinned
                      THEN [h EXCEPT ![s.arr] = <<>>] ELSE h
         IN [s |-> [arr |-> a, len |-> s.len + 1],
             h |-> [freed EXCEPT ![a] = grown]]

\* The first index j (1-based) with s[j] = v, or 0.
IndexOf(q, v) ==
    IF \E j \in 1..Len(q) : q[j] = v
    THEN CHOOSE j \in 1..Len(q) : q[j] = v /\ \A k \in 1..(j - 1) : q[k] # v
    ELSE 0

\* copy(s[j:], s[j+1:]); s[len(s)-1] = ""; s = s[:len(s)-1]
\* The shift and the zeroing write the backing array, which every slice on
\* that array sees.
RemoveAt(s, h, j) ==
    LET old == h[s.arr]
        arr == [k \in 1..Len(old) |->
                   IF k < j THEN old[k]
                   ELSE IF k < s.len THEN old[k + 1]
                   ELSE IF k = s.len THEN ""
                   ELSE old[k]]
    IN [s |-> [s EXCEPT !.len = s.len - 1],
        h |-> [h EXCEPT ![s.arr] = arr]]

\* for i := range xs { found := ...; if !found { s = append(s, xs[i]) } }
RECURSIVE EnableLoop(_, _, _, _, _, _)
EnableLoop(s, h, xs, i, ids, pinned) ==
    IF i > Len(xs) THEN [s |-> s, h |-> h]
    ELSE LET found == \E j \in 1..s.len : xs[i] = SliceVal(s, h)[j]
             r == IF found THEN [s |-> s, h |-> h] ELSE GoAppend(s, h, xs[i], ids, pinned)
         IN EnableLoop(r.s, r.h, xs, i + 1, ids, pinned)

\* for i := range xs { for j := range s { if xs[i] == s[j] { remove; break } } }
RECURSIVE DisableLoop(_, _, _, _)
DisableLoop(s, h, xs, i) ==
    IF i > Len(xs) THEN [s |-> s, h |-> h]
    ELSE LET j == IndexOf(SliceVal(s, h), xs[i])
             r == IF j = 0 THEN [s |-> s, h |-> h] ELSE RemoveAt(s, h, j)
         IN DisableLoop(r.s, r.h, xs, i + 1)

----------------------------------------------------------------------------
(* Client *)

\* Client{}: the zero value.
ZeroClient ==
    [ID |-> "", AllowedTenantAccess |-> NilSlice, Name |-> "", Secret |-> <<>>,
     RedirectURIs |-> <<>>, GrantTypes |-> <<>>, ResponseTypes |-> <<>>,
     Scopes |-> NilSlice, Owner |-> "", PolicyURI |-> "",
     TermsOfServiceURI |-> "", ClientURI |-> "", LogoURI |-> "",
     Contacts |-> <<>>, Public |-> FALSE, Disabled |-> FALSE]

\* A Client as the values its fields hold: the two slice fields that live on
\* the heap are read through their backing arrays.
ClientVal(cl, h) ==
    [cl EXCEPT !.Scopes = SliceVal(cl.Scopes, h),
               !.AllowedTenantAccess = SliceVal(cl.AllowedTenantAccess, h)]

Pinned(slices) == {s.arr : s \in slices} \ {0}

\* A faulty append loop: the `found` test is lost, every argument is appended.
RECURSIVE AppendAll(_, _, _, _, _, _)
AppendAll(s, h, xs, i, ids, pinned) ==
    IF i > Len(xs) THEN [s |-> s, h |-> h]
    ELSE LET r == GoAppend(s, h, xs[i], ids, pinned)
         IN AppendAll(r.s, r.h, xs, i + 1, ids, pinned)

\* Faulty EnableScopeAccess: appends without looking for the value.
EnableScopeAccessNoLookup(cl, other, h, scopes) ==
    LET r == AppendAll(cl.Scopes, h, scopes, 1, ScopesArrays, Pinned({other.Scopes}))
    IN [c |-> [cl EXCEPT !.Scopes = r.s], h |-> r.h]

\* c.EnableScopeAccess(scopes...)
EnableScopeAccess(cl, other, h, scopes) ==
    LET r == EnableLoop(cl.Scopes, h, scopes, 1, ScopesArrays, Pinned({other.Scopes}))
    IN [c |-> [cl EXCEPT !.Scopes = r.s], h |-> r.h]

\* Faulty DisableScopeAccess: the `break` leaves both loops, so only the
\* first argument found is removed.
DisableScopeAccessFirstOnly(cl, other, h, scopes) ==
    LET hit == {i \in 1..Len(scopes) : IndexOf(SliceVal(cl.Scopes, h), scopes[i]) # 0}
        upto == IF hit = {} THEN 0 ELSE CHOOSE i \in hit : \A k \in hit : i <= k
        r == DisableLoop(cl.Scopes, h, SubSeq(scopes, 1, upto), 1)
    IN [c |-> [cl EXCEPT !.Scopes = r.s], h |-> r.h]

\* c.DisableScopeAccess(scopes...)
DisableScopeAccess(cl, other, h, scopes) ==
    LET r == DisableLoop(cl.Scopes, h, scopes, 1)
    IN [c |-> [cl EXCEPT !.Scopes = r.s], h |-> r.h]

\* Faulty EnableTenantAccess: the body of EnableScopeAccess pasted without
\* renaming the field.
EnableTenantAccessOnScopes(cl, other, h, tenantIDs) ==
    LET r == EnableLoop(cl.Scopes, h, tenantIDs, 1, ScopesArrays, Pinned({other.Scopes}))
    IN [c |-> [cl EXCEPT !.Scopes = r.s], h |-> r.h]

\* c.EnableTenantAccess(tenantIDs...)
EnableTenantAccess(cl, other, h, tenantIDs) ==
    LET r == EnableLoop(cl.AllowedTenantAccess, h, tenantIDs, 1, TenantArrays,
                        Pinned({other.AllowedTenantAccess}))
    IN [c |-> [cl EXCEPT !.AllowedTenantAccess = r.s], h |-> r.h]

\* c.DisableTenantAccess(tenantIDs...)
DisableTenantAccess(cl, other, h, tenantIDs) ==
    LET r == DisableLoop(cl.AllowedTenantAccess, h, tenantIDs, 1)
    IN [c |-> [cl EXCEPT !.AllowedTenantAccess = r.s], h |-> r.h]

\* Faulty strArrEquals: the lengths are compared, the elements are not.
strArrEqualsLenOnly(arr1, arr2) == Len(arr1) = Len(arr2)

\* strArrEquals(arr1, arr2)
strArrEquals(arr1, arr2) ==
    IF Len(arr1) # Len(arr2) THEN FALSE
    ELSE \A i \in 1..Len(arr1) : arr1[i] = arr2[i]

\* string(b) of a []byte: the same bytes, so two conversions are equal
\* exactly when the byte sequences are.
BytesToString(b) == [i \in 1..Len(b) |-> b[i] % 256]

\* Faulty Equal: the last comparison, of Disabled, is missing.
EqualButDisabled(cv, x) ==
    /\ cv.ID = x.ID
    /\ cv.AllowedTenantAccess = x.AllowedTenantAccess
    /\ cv.Name = x.Name
    /\ cv.Secret = x.Secret
    /\ cv.RedirectURIs = x.RedirectURIs
    /\ cv.GrantTypes = x.GrantTypes
    /\ cv.ResponseTypes = x.ResponseTypes
    /\ cv.Scopes = x.Scopes
    /\ cv.Owner = x.Owner
    /\ cv.PolicyURI = x.PolicyURI
    /\ cv.TermsOfServiceURI = x.TermsOfServiceURI
    /\ cv.ClientURI = x.ClientURI
    /\ cv.LogoURI = x.LogoURI
    /\ cv.Contacts = x.Contacts
    /\ cv.Public = x.Public

\* c.Equal(x), on the values of the two clients (both are passed by value
\* and only read): the first failing comparison returns false.
Equal(cv, x) ==
    IF cv.ID # x.ID THEN FALSE
    ELSE IF ~strArrEquals(cv.AllowedTenantAccess, x.AllowedTenantAccess) THEN FALSE
    ELSE IF cv.Name # x.Name THEN FALSE
    ELSE IF BytesToString(cv.Secret) # BytesToString(x.Secret) THEN FALSE
    ELSE IF ~strArrEquals(cv.RedirectURIs, x.RedirectURIs) THEN FALSE
    ELSE IF ~strArrEquals(cv.GrantTypes, x.GrantTypes) THEN FALSE
    ELSE IF ~strArrEquals(cv.ResponseTypes, x.ResponseTypes) THEN FALSE
    ELSE IF ~strArrEquals(cv.Scopes, x.Scopes) THEN FALSE
    ELSE IF cv.Owner # x.Owner THEN FALSE
    ELSE IF cv.PolicyURI # x.PolicyURI THEN FALSE
    ELSE IF cv.TermsOfServiceURI # x.TermsOfServiceURI THEN FALSE
    ELSE IF cv.ClientURI # x.ClientURI THEN FALSE
    ELSE IF cv.LogoURI # x.LogoURI THEN FALSE
    ELSE IF ~strArrEquals(cv.Contacts, x.Contacts) THEN FALSE
    ELSE IF cv.Public # x.Public THEN FALSE
    ELSE IF cv.Disabled # x.Disabled THEN FALSE
    ELSE TRUE

\* c.IsEmpty()
IsEmpty(cv) == Equal(cv, ClientVal(ZeroClient, <<>>))

\* c.GetGrantTypes()
GetGrantTypes(cv) ==
    IF Len(cv.GrantTypes) = 0 THEN <<"authorization_code">> ELSE cv.GrantTypes

\* Faulty GetResponseTypes: the default of GetGrantTypes was pasted.
GetResponseTypesGrantDefault(cv) ==
    IF Len(cv.ResponseTypes) = 0 THEN <<"authorization_code">> ELSE cv.ResponseTypes

\* c.GetResponseTypes()
GetResponseTypes(cv) ==
    IF Len(cv.ResponseTypes) = 0 THEN <<"code">> ELSE cv.ResponseTypes

----------------------------------------------------------------------------
(* The clients the model starts from *)

\* The fields of Client other than Scopes and AllowedTenantAccess.
PlainFields ==
    {"ID", "Name", "Secret", "RedirectURIs", "GrantTypes", "ResponseTypes",
     "Owner", "PolicyURI", "TermsOfServiceURI", "ClientURI", "LogoURI",
     "Contacts", "Public", "Disabled"}

Fields == PlainFields \cup {"Scopes", "AllowedTenantAccess"}

\* Values each field is given; the first of each list is the zero value.
FieldValues(f) ==
    CASE f = "ID" -> <<"", "c1", "c2">>
      [] f = "Name" -> <<"", "app">>
      [] f = "Secret" -> <<<<>>, <<115>>, <<115, 51>>, <<51, 115>>>>
      [] f = "RedirectURIs" -> <<<<>>, <<"u1">>, <<"u1", "u2">>, <<"u2", "u1">>>>
      [] f = "GrantTypes" -> <<<<>>, <<"implicit">>, <<"authorization_code", "refresh_token">>,
                               <<"refresh_token", "authorization_code">>>>
      [] f = "ResponseTypes" -> <<<<>>, <<"token">>, <<"code", "token">>, <<"token", "code">>>>
      [] f = "Owner" -> <<"", "org">>
      [] f = "PolicyURI" -> <<"", "p">>
      [] f = "TermsOfServiceURI" -> <<"", "t">>
      [] f = "ClientURI" -> <<"", "w">>
      [] f = "LogoURI" -> <<"", "l">>
      [] f = "Contacts" -> <<<<>>, <<"m1">>, <<"m1", "m2">>, <<"m2", "m1">>>>
      [] f = "Public" -> <<FALSE, TRUE>>
      [] f = "Disabled" -> <<FALSE, TRUE>>
      [] f = "Scopes" -> <<<<>>, <<"a">>, <<"a", "b">>, <<"b", "a">>>>
      [] f = "AllowedTenantAccess" -> <<<<>>, <<"t1">>, <<"t1", "t2">>, <<"t2", "t1">>>>

\* Clients with Scopes and AllowedTenantAccess nil and at most one other
\* field set.
SparseClients ==
    {ZeroClient} \cup {[ZeroClient EXCEPT ![f] = FieldValues(f)[2]] : f \in PlainFields}

EmptyHeap == [a \in ArrayIds |-> <<>>]

----------------------------------------------------------------------------
(* Session storage *)

\* mongo.CollectionRefreshTokens and mongo.CollectionAccessTokens
CollectionRefreshTokens == "refreshTokens"
CollectionAccessTokens == "accessTokens"
Collections == {CollectionRefreshTokens, CollectionAccessTokens}

Signatures == {"sigA", "sigR"}
RequestIDs == {"req1", "req2"}
Subjects == {"alice", "bob"}

\* The caller's session objects.
Sessions == [subject : Subjects]
BlankSession == [subject |-> ""]

\* The requests that are stored: a request id, the session, and the time the
\* artifact expires at.
Requests ==
    {[id |-> "req1", session |-> [subject |-> "alice"], expiresAt |-> 1],
     [id |-> "req1", session |-> [subject |-> "bob"], expiresAt |-> MaxTime],
     [id |-> "req2", session |-> [subject |-> "bob"], expiresAt |-> MaxTime]}
NoRequest == [id |-> "", session |-> BlankSession, expiresAt |-> 0]

\* The session objects a caller hands to a Get: a fresh one, or one used before.
CallerSessions == {BlankSession} \cup Sessions

NoError == "nil"
ErrNotFound == "NotFound"
ErrConflict == "Conflict"
ErrExpired == "Expired"

\* The session codec: a version tag followed by the session's fields.
Encode(session) == <<"v1", session.subject>>
Decode(bytes, target) == [target EXCEPT !.subject = bytes[2]]

\* The document a request is stored as, and the request a document decodes
\* to, into the session object the caller supplies.
Collapse(signature, request) ==
    [signature |-> signature, id |-> request.id, expiresAt |-> request.expiresAt,
     sessionData |-> Encode(request.session)]
ToRequest(doc, session) ==
    [id |-> doc.id, session |-> Decode(doc.sessionData, session), expiresAt |-> doc.expiresAt]

\* m.createSession(signature, request, collectionName): an insert under the
\* collection's unique index on signature.
createSession(store, signature, request, collectionName) ==
    IF \E doc \in store[collectionName] : doc.signature = signature
    THEN [db |-> store, err |-> ErrConflict]
    ELSE [db |-> [store EXCEPT ![collectionName] = @ \cup {Collapse(signature, request)}],
          err |-> NoError]

\* m.findSessionBySignature(signature, session, collectionName), at time
\* `clock`: expiry is enforced here, at read time; a record past its expiry is
\* still stored, and the lookup fails with Expired instead of returning it.
findSessionBySignature(store, clock, signature, session, collectionName) ==
    IF \E doc \in store[collectionName] : doc.signature = signature
    THEN LET doc == CHOOSE x \in store[collectionName] : x.signature = signature
         IN IF clock > doc.expiresAt
            THEN [request |-> NoRequest, found |-> doc.signature, err |-> ErrExpired]
            ELSE [request |-> ToRequest(doc, session), found |-> doc.signature, err |-> NoError]
    ELSE [request |-> NoRequest, found |-> "", err |-> ErrNotFound]

\* m.deleteSession(signature, collectionName)
deleteSession(store, signature, collectionName) ==
    IF \E doc \in store[collectionName] : doc.signature = signature
    THEN [db |-> [store EXCEPT ![collectionName] = {doc \in @ : doc.signature # signature}],
          err |-> NoError]
    ELSE [db |-> store, err |-> ErrNotFound]

\* Faulty CreateRefreshTokenSession: the collection of another kind is named.
CreateRefreshTokenSessionWrongKind(store, signature, request) ==
    createSession(store, signature, request, CollectionAccessTokens)

\* m.CreateRefreshTokenSession(ctx, signature, request)
CreateRefreshTokenSession(store, signature, request) ==
    createSession(store, signature, request, CollectionRefreshTokens)

\* Faulty GetRefreshTokenSession: the collection of another kind is named.
GetRefreshTokenSessionWrongKind(store, clock, signature, session) ==
    findSessionBySignature(store, clock, signature, session, CollectionAccessTokens)

\* m.GetRefreshTokenSession(ctx, signature, session)
GetRefreshTokenSession(store, clock, signature, session) ==
    findSessionBySignature(store, clock, signature, session, CollectionRefreshTokens)

\* Faulty DeleteRefreshTokenSession: returns nil without deleting.
DeleteRefreshTokenSessionNoOp(store, signature) == [db |-> store, err |-> NoError]

\* m.DeleteRefreshTokenSession(ctx, signature)
DeleteRefreshTokenSession(store, signature) ==
    deleteSession(store, signature, CollectionRefreshTokens)

\* m.CreateAccessTokenSession(ctx, signature, request)
CreateAccessTokenSession(store, signature, request) ==
    createSession(store, signature, request, CollectionAccessTokens)

\* m.RevokeRefreshToken(ctx, requestID): every refresh-token document of the
\* request goes, and with it the access tokens of the same request.
RevokeRefreshToken(store, requestID) ==
    [db |-> [k \in Collections |-> {doc \in store[k] : doc.id # requestID}], err |-> NoError]

EmptyDB == [k \in Collections |-> {}]

\* The request handlers that run at the same time, and a handler with no call
\* in flight.
Handlers == {"h1", "h2"}
Idle == [op |-> "idle"]
NoCalls == [h \in Handlers |-> Idle]
NothingLive == [s \in Signatures |-> NoRequest]

----------------------------------------------------------------------------
(* Calls on the client *)

\* The two lists of a client, as values.
Lists(cl, h) ==
    [Scopes |-> SliceVal(cl.Scopes, h),
     AllowedTenantAccess |-> SliceVal(cl.AllowedTenantAccess, h)]

StoreUnchanged == UNCHANGED <<db, now, calls, live>>

CallEnableScopeAccess(xs) ==
    LET r == EnableScopeAccess(c, d, heap, xs)
    IN /\ c' = r.c
       /\ heap' = r.h
       /\ last' = [op |-> "EnableScopeAccess", args |-> xs, pre |-> Lists(c, heap),
                   preD |-> Lists(d, heap), aliased |-> hasCopy /\ d = c]
       /\ UNCHANGED <<d, hasCopy>>
       /\ StoreUnchanged

CallDisableScopeAccess(xs) ==
    LET r == DisableScopeAccess(c, d, heap, xs)
    IN /\ c' = r.c
       /\ heap' = r.h
       /\ last' = [op |-> "DisableScopeAccess", args |-> xs, pre |-> Lists(c, heap),
                   preD |-> Lists(d, heap), aliased |-> hasCopy /\ d = c]
       /\ UNCHANGED <<d, hasCopy>>
       /\ StoreUnchanged

CallEnableTenantAccess(xs) ==
    LET r == EnableTenantAccess(c, d, heap, xs)
    IN /\ c' = r.c
       /\ heap' = r.h
       /\ last' = [op |-> "EnableTenantAccess", args |-> xs, pre |-> Lists(c, heap),
                   preD |-> Lists(d, heap), aliased |-> hasCopy /\ d = c]
       /\ UNCHANGED <<d, hasCopy>>
       /\ StoreUnchanged

CallDisableTenantAccess(xs) ==
    LET r == DisableTenantAccess(c, d, heap, xs)
    IN /\ c' = r.c
       /\ heap' = r.h
       /\ last' = [op |-> "DisableTenantAccess", args |-> xs, pre |-> Lists(c, heap),
                   preD |-> Lists(d, heap), aliased |-> hasCopy /\ d = c]
       /\ UNCHANGED <<d, hasCopy>>
       /\ StoreUnchanged

CallIsEmpty ==
    /\ last' = [op |-> "IsEmpty", ret |-> IsEmpty(ClientVal(c, heap))]
    /\ UNCHANGED <<c, d, hasCopy, heap>>
    /\ StoreUnchanged

CallGetGrantTypes ==
    /\ last' = [op |-> "GetGrantTypes", ret |-> GetGrantTypes(ClientVal(c, heap)),
                pre |-> ClientVal(c, heap)]
    /\ UNCHANGED <<c, d, hasCopy, heap>>
    /\ StoreUnchanged

CallGetResponseTypes ==
    /\ last' = [op |-> "GetResponseTypes", ret |-> GetResponseTypes(ClientVal(c, heap)),
                pre |-> ClientVal(c, heap)]
    /\ UNCHANGED <<c, d, hasCopy, heap>>
    /\ StoreUnchanged

\* c.Equal(d)
CallEqual ==
    /\ last' = [op |-> "Equal", ret |-> Equal(ClientVal(c, heap), ClientVal(d, heap))]
    /\ UNCHANGED <<c, d, hasCopy, heap>>
    /\ StoreUnchanged

\* d := c.  The struct is copied, the slices' backing arrays are shared; the
\* arrays only the old d referred to are collected.
CopyClient ==
    LET kept == Pinned({c.Scopes, c.AllowedTenantAccess})
    IN /\ d' = c
       /\ hasCopy' = TRUE
       /\ heap' = [a \in ArrayIds |-> IF a \in kept THEN heap[a] ELSE <<>>]
       /\ last' = [op |-> "Copy"]
       /\ UNCHANGED c
       /\ StoreUnchanged

Init ==
    /\ c = ZeroClient
    /\ d = ZeroClient
    /\ hasCopy = FALSE
    /\ heap = EmptyHeap
    /\ db = EmptyDB
    /\ live = NothingLive
    /\ now = 0
    /\ calls = NoCalls
    /\ last = [op |-> "init"]

Next ==
    \/ \E xs \in ScopeArgs : CallEnableScopeAccess(xs)
    \/ \E xs \in ScopeArgs : CallDisableScopeAccess(xs)
    \/ \E xs \in TenantArgs : CallEnableTenantAccess(xs)
    \/ \E xs \in TenantArgs : CallDisableTenantAccess(xs)
    \/ CallIsEmpty
    \/ CallGetGrantTypes
    \/ CallGetResponseTypes

Spec == Init /\ [][Next]_vars

\* Calls with one argument each, on clients that start with some other
\* field set.
InitSparse ==
    /\ c \in SparseClients
    /\ d = ZeroClient
    /\ hasCopy = FALSE
    /\ heap = EmptyHeap
    /\ db = EmptyDB
    /\ live = NothingLive
    /\ now = 0
    /\ calls = NoCalls
    /\ last = [op |-> "init"]

NextSparse ==
    \/ \E xs \in OneArg(ScopeNames) : CallEnableScopeAccess(xs)
    \/ \E xs \in OneArg(ScopeNames) : CallDisableScopeAccess(xs)
    \/ \E xs \in OneArg(TenantIDs) : CallEnableTenantAccess(xs)
    \/ \E xs \in OneArg(TenantIDs) : CallDisableTenantAccess(xs)
    \/ CallIsEmpty

SpecSparse == InitSparse /\ [][NextSparse]_vars

\* Calls with one argument each, with copies of the client being taken.
InitCopy ==
    /\ c = ZeroClient
    /\ d = ZeroClient
    /\ hasCopy = FALSE
    /\ heap = EmptyHeap
    /\ db = EmptyDB
    /\ live = NothingLive
    /\ now = 0
    /\ calls = NoCalls
    /\ last = [op |-> "init"]

NextCopy ==
    \/ \E xs \in OneArg(ScopeNames) : CallEnableScopeAccess(xs)
    \/ \E xs \in OneArg(ScopeNames) : CallDisableScopeAccess(xs)
    \/ \E xs \in OneArg(CopyTenantIDs) : CallEnableTenantAccess(xs)
    \/ \E xs \in OneArg(CopyTenantIDs) : CallDisableTenantAccess(xs)
    \/ CopyClient
    \/ CallEqual

SpecCopy == InitCopy /\ [][NextCopy]_vars

----------------------------------------------------------------------------
(* Equal, IsEmpty and the accessors on clients with any field set *)

\* Clients as values: every field zero, every field at its first non-zero
\* sample, every field at its last sample.
BaseValues ==
    {[f \in Fields |-> FieldValues(f)[1]],
     [f \in Fields |-> FieldValues(f)[2]],
     [f \in Fields |-> FieldValues(f)[Len(FieldValues(f))]]}

\* A client value with up to two fields given other sample values.
Variants(base) ==
    LET one == {[base EXCEPT ![f] = v] : <<f, v>> \in
                   UNION {{<<g, FieldValues(g)[i]>> : i \in 1..Len(FieldValues(g))} : g \in Fields}}
        two == {[x EXCEPT ![f] = FieldValues(f)[2]] : <<x, f>> \in one \X Fields}
    IN one \cup two

\* A []string literal: nil when empty, else an array of exactly its length.
Literal(val, a) == IF Len(val) = 0 THEN NilSlice ELSE [arr |-> a, len |-> Len(val)]

\* The receiver and the argument of Equal: a base client and a variant of it,
\* either way round, each with its own arrays.
InitEqual ==
    \E base \in BaseValues : \E x \in Variants(base) : \E p \in {<<base, x>>, <<x, base>>} :
        /\ c = [p[1] EXCEPT !.Scopes = Literal(p[1].Scopes, 1),
                            !.AllowedTenantAccess = Literal(p[1].AllowedTenantAccess, 3)]
        /\ d = [p[2] EXCEPT !.Scopes = Literal(p[2].Scopes, 2),
                            !.AllowedTenantAccess = Literal(p[2].AllowedTenantAccess, 4)]
        /\ hasCopy = TRUE
        /\ heap = <<p[1].Scopes, p[2].Scopes, p[1].AllowedTenantAccess, p[2].AllowedTenantAccess>>
        /\ db = EmptyDB
        /\ live = NothingLive
        /\ now = 0
        /\ calls = NoCalls
        /\ last = [op |-> "init"]

NextEqual ==
    \/ CallEqual
    \/ CallIsEmpty
    \/ CallGetGrantTypes
    \/ CallGetResponseTypes

SpecEqual == InitEqual /\ [][NextEqual]_vars

----------------------------------------------------------------------------
(* Calls on the session storage *)

ClientUnchanged == UNCHANGED <<c, d, hasCopy, heap>>

Touch(s) == [live EXCEPT ![s] = NoRequest]

\* The database operation of a CreateRefreshTokenSession(s, r) and its reply.
DoCreateRefreshTokenSession(s, r) ==
    LET res == CreateRefreshTokenSession(db, s, r)
    IN /\ db' = res.db
       /\ live' = IF res.err = NoError THEN [live EXCEPT ![s] = r] ELSE live
       /\ last' = [op |-> "CreateRefreshTokenSession", sig |-> s, req |-> r, err |-> res.err,
                   preLive |-> live, preDB |-> db]
       /\ UNCHANGED now
       /\ ClientUnchanged

\* The database operation of a GetRefreshTokenSession(s, session) and its reply.
DoGetRefreshTokenSession(s, session) ==
    LET res == GetRefreshTokenSession(db, now, s, session)
    IN /\ last' = [op |-> "GetRefreshTokenSession", sig |-> s, err |-> res.err,
                   out |-> res.request, found |-> res.found]
       /\ UNCHANGED <<db, live, now>>
       /\ ClientUnchanged

\* The database operation of a DeleteRefreshTokenSession(s) and its reply.
DoDeleteRefreshTokenSession(s) ==
    LET res == DeleteRefreshTokenSession(db, s)
    IN /\ db' = res.db
       /\ live' = Touch(s)
       /\ last' = [op |-> "DeleteRefreshTokenSession", sig |-> s, err |-> res.err,
                   preLive |-> live, preDB |-> db]
       /\ UNCHANGED now
       /\ ClientUnchanged

CallCreateRefreshTokenSession(s, r) ==
    DoCreateRefreshTokenSession(s, r) /\ UNCHANGED calls

CallGetRefreshTokenSession(s, session) ==
    DoGetRefreshTokenSession(s, session) /\ UNCHANGED calls

CallDeleteRefreshTokenSession(s) ==
    DoDeleteRefreshTokenSession(s) /\ UNCHANGED calls

CallCreateAccessTokenSession(s, r) ==
    LET res == CreateAccessTokenSession(db, s, r)
    IN /\ db' = res.db
       /\ last' = [op |-> "CreateAccessTokenSession", sig |-> s, req |-> r, err |-> res.err]
       /\ UNCHANGED <<live, now, calls>>
       /\ ClientUnchanged

CallRevokeRefreshToken(id) ==
    LET res == RevokeRefreshToken(db, id)
    IN /\ db' = res.db
       /\ live' = [s \in Signatures |-> IF live[s].id = id THEN NoRequest ELSE live[s]]
       /\ last' = [op |-> "RevokeRefreshToken", id |-> id, err |-> res.err]
       /\ UNCHANGED <<now, calls>>
       /\ ClientUnchanged

\* Time passes.
Tick ==
    /\ now < MaxTime + 1
    /\ now' = now + 1
    /\ last' = [op |-> "Tick"]
    /\ UNCHANGED <<db, live, calls>>
    /\ ClientUnchanged

\* A janitor outside the storage removes a record that has expired; for the
\* record it is a deletion.
SweepExpired(k, s) ==
    /\ \E doc \in db[k] : doc.signature = s /\ now > doc.expiresAt
    /\ db' = [db EXCEPT ![k] = {doc \in @ : doc.signature # s}]
    /\ live' = IF k = CollectionRefreshTokens THEN Touch(s) ELSE live
    /\ last' = [op |-> "SweepExpired", sig |-> s]
    /\ UNCHANGED <<now, calls>>
    /\ ClientUnchanged

InitStore ==
    /\ c = ZeroClient
    /\ d = ZeroClient
    /\ hasCopy = FALSE
    /\ heap = EmptyHeap
    /\ db = EmptyDB
    /\ live = NothingLive
    /\ now = 0
    /\ calls = NoCalls
    /\ last = [op |-> "init"]

\* Whole calls, one after another, as time passes.
NextStore ==
    \/ \E s \in Signatures, r \in Requests : CallCreateRefreshTokenSession(s, r)
    \/ \E s \in Signatures, session \in CallerSessions : CallGetRefreshTokenSession(s, session)
    \/ \E s \in Signatures : CallDeleteRefreshTokenSession(s)
    \/ \E s \in Signatures, r \in Requests : CallCreateAccessTokenSession(s, r)
    \/ \E id \in RequestIDs : CallRevokeRefreshToken(id)
    \/ \E k \in Collections, s \in Signatures : SweepExpired(k, s)
    \/ Tick

SpecStore == InitStore /\ [][NextStore]_vars

----------------------------------------------------------------------------
(* Concurrent request handlers *)

\* The calls a handler can have in flight.
Calls ==
    {[op |-> "CreateRefreshTokenSession", sig |-> s, req |-> r] : s \in Signatures, r \in Requests}
    \cup {[op |-> "GetRefreshTokenSession", sig |-> s, session |-> x] :
             s \in Signatures, x \in CallerSessions}
    \cup {[op |-> "DeleteRefreshTokenSession", sig |-> s] : s \in Signatures}

\* A handler enters a storage call; nothing has reached the database yet.
Begin(h, call) ==
    /\ calls[h] = Idle
    /\ calls' = [calls EXCEPT ![h] = call]
    /\ UNCHANGED <<db, now, live, last>>
    /\ ClientUnchanged

Finish(h) == calls' = [calls EXCEPT ![h] = Idle]

\* A handler's call does its one operation on the database and returns.  The
\* storage holds no lock of its own: the insert, the lookup and the removal
\* are each one operation of the database, which keeps signatures unique per
\* collection.
RunCreateRefreshTokenSession(h) ==
    /\ calls[h].op = "CreateRefreshTokenSession"
    /\ DoCreateRefreshTokenSession(calls[h].sig, calls[h].req)
    /\ Finish(h)

RunGetRefreshTokenSession(h) ==
    /\ calls[h].op = "GetRefreshTokenSession"
    /\ DoGetRefreshTokenSession(calls[h].sig, calls[h].session)
    /\ Finish(h)

RunDeleteRefreshTokenSession(h) ==
    /\ calls[h].op = "DeleteRefreshTokenSession"
    /\ DoDeleteRefreshTokenSession(calls[h].sig)
    /\ Finish(h)

\* Handlers enter calls at any time and their database operations interleave
\* in any order.
NextHandlers ==
    \/ \E h \in Handlers, call \in Calls : Begin(h, call)
    \/ \E h \in Handlers : RunCreateRefreshTokenSession(h)
    \/ \E h \in Handlers : RunGetRefreshTokenSession(h)
    \/ \E h \in Handlers : RunDeleteRefreshTokenSession(h)
    \/ \E k \in Collections, s \in Signatures : SweepExpired(k, s)
    \/ Tick

SpecHandlers == InitStore /\ [][NextHandlers]_vars

----------------------------------------------------------------------------
(* Properties of the scope and tenant set operations *)

Now == ClientVal(c, heap)

\* `post` is `pre` followed by the values of xs that pre lacks, each once, in
\* the order in which they first occur in xs.
IsExtension(pre, xs, post) ==
    LET added == SubSeq(post, Len(pre) + 1, Len(post))
        first(v) == CHOOSE i \in 1..Len(xs) : xs[i] = v /\ \A k \in 1..(i - 1) : xs[k] # v
    IN /\ Len(post) >= Len(pre)
       /\ SubSeq(post, 1, Len(pre)) = pre
       /\ Range(added) = Range(xs) \ Range(pre)
       /\ NoDup(added)
       /\ \A i, j \in 1..Len(added) : i < j => first(added[i]) < first(added[j])

\* `post` is `pre` without the values of xs, the others in their old order.
IsRemoval(pre, xs, post) ==
    LET keep(v) == v \notin Range(xs)
    IN post = SelectSeq(pre, keep)

\* C5: EnableScopeAccess(xs...) on duplicate-free Scopes leaves the old Scopes
\* in their order, followed by the new values of xs, each once, in order of
\* first occurrence; enabling present values changes nothing and a second
\* identical call changes nothing.  The same for EnableTenantAccess.
C5_EnableAppendsNewOnce ==
    /\ (last.op = "EnableScopeAccess" /\ NoDup(last.pre.Scopes)) =>
          /\ IsExtension(last.pre.Scopes, last.args, Now.Scopes)
          /\ (Range(last.args) \subseteq Range(last.pre.Scopes) => Now.Scopes = last.pre.Scopes)
          /\ LET again == EnableScopeAccess(c, d, heap, last.args)
             IN SliceVal(again.c.Scopes, again.h) = Now.Scopes
    /\ (last.op = "EnableTenantAccess" /\ NoDup(last.pre.AllowedTenantAccess)) =>
          /\ IsExtension(last.pre.AllowedTenantAccess, last.args, Now.AllowedTenantAccess)
          /\ (Range(last.args) \subseteq Range(last.pre.AllowedTenantAccess)
                => Now.AllowedTenantAccess = last.pre.AllowedTenantAccess)
          /\ LET again == EnableTenantAccess(c, d, heap, last.args)
             IN SliceVal(again.c.AllowedTenantAccess, again.h) = Now.AllowedTenantAccess

\* An EnableScopeAccess("b", "b") on Scopes ["a"] has run.
C5_Witness ==
    /\ last.op = "EnableScopeAccess"
    /\ last.args = <<"b", "b">>
    /\ last.pre.Scopes = <<"a">>
    /\ Now.Scopes = <<"a", "b">>

\* C6: DisableScopeAccess(xs...) on duplicate-free Scopes leaves the old Scopes
\* without the values of xs, the others in their old relative order, and no
\* empty string behind; a second identical call changes nothing.  The same
\* for DisableTenantAccess.
C6_DisableRemovesExactly ==
    /\ (last.op = "DisableScopeAccess" /\ NoDup(last.pre.Scopes)) =>
          /\ IsRemoval(last.pre.Scopes, last.args, Now.Scopes)
          /\ "" \notin Range(Now.Scopes)
          /\ LET again == DisableScopeAccess(c, d, heap, last.args)
             IN SliceVal(again.c.Scopes, again.h) = Now.Scopes
    /\ (last.op = "DisableTenantAccess" /\ NoDup(last.pre.AllowedTenantAccess)) =>
          /\ IsRemoval(last.pre.AllowedTenantAccess, last.args, Now.AllowedTenantAccess)
          /\ "" \notin Range(Now.AllowedTenantAccess)
          /\ LET again == DisableTenantAccess(c, d, heap, last.args)
             IN SliceVal(again.c.AllowedTenantAccess, again.h) = Now.AllowedTenantAccess

\* A DisableScopeAccess("c", "a") on Scopes ["a", "b", "c"] has run.
C6_Witness ==
    /\ last.op = "DisableScopeAccess"
    /\ last.args = <<"c", "a">>
    /\ last.pre.Scopes = <<"a", "b", "c">>
    /\ Now.Scopes = <<"b">>

\* C7: from a client with empty Scopes and AllowedTenantAccess, after any
\* sequence of the four calls neither list holds a value twice, scope calls
\* leave AllowedTenantAccess as it was and tenant calls leave Scopes as it was.
C7_Uniqueness ==
    /\ NoDup(Now.Scopes)
    /\ NoDup(Now.AllowedTenantAccess)
    /\ last.op \in {"EnableScopeAccess", "DisableScopeAccess"} =>
          Now.AllowedTenantAccess = last.pre.AllowedTenantAccess
    /\ last.op \in {"EnableTenantAccess", "DisableTenantAccess"} =>
          Now.Scopes = last.pre.Scopes

\* Both lists are full and a tenant call has just added to its list.
C7_Witness ==
    /\ last.op = "EnableTenantAccess"
    /\ Len(Now.Scopes) = 3
    /\ Len(last.pre.AllowedTenantAccess) = 1
    /\ Len(Now.AllowedTenantAccess) = 2

\* Every field holds its zero value: strings empty, booleans false, no bytes
\* in Secret, every slice of length zero.
AllZero(cv) ==
    /\ \A f \in {"ID", "Name", "Owner", "PolicyURI", "TermsOfServiceURI", "ClientURI", "LogoURI"} :
          cv[f] = ""
    /\ ~cv.Public /\ ~cv.Disabled
    /\ \A f \in {"Secret", "AllowedTenantAccess", "RedirectURIs", "GrantTypes",
                 "ResponseTypes", "Scopes", "Contacts"} : Len(cv[f]) = 0

\* C9: IsEmpty() is true exactly for a client whose every field is zero; a
\* client with nothing but scopes or tenants is IsEmpty again once all of
\* them are disabled, and not while one remains.
C9_IsEmptyOnlyZero ==
    last.op = "IsEmpty" =>
        /\ last.ret = AllZero(Now)
        /\ (\A f \in PlainFields : c[f] = ZeroClient[f]) =>
              (last.ret <=> (Len(Now.Scopes) = 0 /\ Len(Now.AllowedTenantAccess) = 0))

\* IsEmpty() answered true on a client whose Scopes and AllowedTenantAccess
\* were filled and emptied again (the slices are not nil, only of length 0).
C9_Witness ==
    /\ last.op = "IsEmpty"
    /\ last.ret
    /\ c.Scopes.arr # 0
    /\ c.AllowedTenantAccess.arr # 0

\* The value c had when the last call started, for a call on a c that d had
\* just been copied from: the other fields are those d still holds.
OldClient ==
    [ClientVal(d, heap) EXCEPT !.Scopes = last.pre.Scopes,
                               !.AllowedTenantAccess = last.pre.AllowedTenantAccess]

\* C10: a Client value d copied from c is not changed by c.DisableScopeAccess
\* or c.DisableTenantAccess: d's lists keep their lengths and values, and d
\* still equals the c it was copied from.
C10_DisableLeavesCopy ==
    (last.op \in {"DisableScopeAccess", "DisableTenantAccess"} /\ last.aliased) =>
        /\ ClientVal(d, heap).Scopes = last.preD.Scopes
        /\ ClientVal(d, heap).AllowedTenantAccess = last.preD.AllowedTenantAccess
        /\ Equal(ClientVal(d, heap), OldClient)

----------------------------------------------------------------------------
(* Properties of Equal and of the accessors *)

\* C4: GetGrantTypes() returns ["authorization_code"] for an empty stored list
\* and the stored list otherwise, GetResponseTypes() returns ["code"] or the
\* stored list; neither call changes any field of the client.
C4_DefaultsAtReadTime ==
    /\ last.op = "GetGrantTypes" =>
          /\ Len(last.pre.GrantTypes) = 0 => last.ret = <<"authorization_code">>
          /\ Len(last.pre.GrantTypes) # 0 => last.ret = last.pre.GrantTypes
          /\ Now = last.pre
    /\ last.op = "GetResponseTypes" =>
          /\ Len(last.pre.ResponseTypes) = 0 => last.ret = <<"code">>
          /\ Len(last.pre.ResponseTypes) # 0 => last.ret = last.pre.ResponseTypes
          /\ Now = last.pre

\* GetResponseTypes() answered with the default and the stored list is still
\* empty, on a client that has grant types stored.
C4_Witness ==
    /\ last.op = "GetResponseTypes"
    /\ last.ret = <<"code">>
    /\ Now.ResponseTypes = <<>>
    /\ Len(Now.GrantTypes) = 2

\* Two field values agree: equal scalars, the same bytes, or the same length
\* and the same string at every position.
SameField(f, a, b) ==
    IF f \in {"Secret", "AllowedTenantAccess", "RedirectURIs", "GrantTypes",
              "ResponseTypes", "Scopes", "Contacts"}
    THEN Len(a) = Len(b) /\ \A i \in 1..Len(a) : a[i] = b[i]
    ELSE a = b

\* C8: c.Equal(x) is true exactly when all sixteen fields agree, so a change
\* of any single field, a swap of two elements of a list included, makes it
\* false.
C8_EqualIffAllFields ==
    last.op = "Equal" =>
        (last.ret <=> \A f \in Fields : SameField(f, Now[f], ClientVal(d, heap)[f]))

\* Equal answered false on two clients that differ only in the order of
\* their two contacts.
C8_Witness ==
    /\ last.op = "Equal"
    /\ ~last.ret
    /\ Now.Contacts = <<"m1", "m2">>
    /\ ClientVal(d, heap).Contacts = <<"m2", "m1">>
    /\ \A f \in Fields \ {"Contacts"} : Now[f] = ClientVal(d, heap)[f]

----------------------------------------------------------------------------
(* Properties of the refresh-token session storage *)

RefreshDocs == db[CollectionRefreshTokens]

Expired(r) == now > r.expiresAt

Alice1 == [id |-> "req1", session |-> [subject |-> "alice"], expiresAt |-> 1]
Bob1 == [id |-> "req1", session |-> [subject |-> "bob"], expiresAt |-> MaxTime]
Bob2 == [id |-> "req2", session |-> [subject |-> "bob"], expiresAt |-> MaxTime]

C3_DeleteDeletesOnlyS ==
    /\ last.op = "DeleteRefreshTokenSession" =>
          /\ last.preLive[last.sig] # NoRequest => last.err = NoError
          /\ GetRefreshTokenSession(db, now, last.sig, BlankSession).err = ErrNotFound
          /\ {doc \in RefreshDocs : doc.signature # last.sig}
                = {doc \in last.preDB[CollectionRefreshTokens] : doc.signature # last.sig}
          /\ \A k \in Collections \ {CollectionRefreshTokens} : db[k] = last.preDB[k]
    /\ (last.op = "GetRefreshTokenSession" /\ live[last.sig] = NoRequest) =>
          last.err = ErrNotFound

\* A delete of sigA succeeded while sigR, and an access token under sigA,
\* were stored.
C3_Witness ==
    /\ last.op = "DeleteRefreshTokenSession"
    /\ last.sig = "sigA"
    /\ last.err = NoError
    /\ last.preLive["sigA"] # NoRequest
    /\ \E doc \in RefreshDocs : doc.signature = "sigR"
    /\ \E doc \in db[CollectionAccessTokens] : doc.signature = "sigA"

====
